---- MODULE Spec2Model ----
(***************************************************************************)
(* cbtr: a multicall task dispatcher (f/c/b/t/r).  The module models       *)
(*   - the directory rule matcher (back_search, forward_search,            *)
(*     path_search) and Entry::matches of src/src/main.rs and              *)
(*     src/src/config.rs (the two files hold the same code),               *)
(*   - the dispatch loop of main() in src/src/main.rs,                     *)
(*   - the older dispatch loop run() of src/src/lib.rs with its own        *)
(*     file search nammed_file_exists.                                     *)
(*   - run() of src/src/main.rs line by line: the child's two streams and  *)
(*     what the runner prints of them,                                     *)
(*   - Config::append of src/src/config.rs under the merge of the two      *)
(*     configuration sources, and the no-searchback option,                *)
(*   - main() invoked with --dry-run and then without it.                  *)
(*                                                                         *)
(* Paths are absolute and normalised: a path is the sequence of its        *)
(* Normal components, <<>> is the filesystem root "/".  A command string   *)
(* is a sequence of one-character strings, so that split_whitespace is     *)
(* computed and not assumed.  Option<T> is a sequence of length 0 or 1.    *)
(***************************************************************************)
EXTENDS Naturals, Sequences, FiniteSets, TLC

VARIABLES
    cwd,        \* env::current_dir()
    repo_root,  \* the repository root used for matching
    fs,         \* the filesystem: a set of [dir, name, kind] directory entries
    path_bins,  \* the program names which::which resolves on $PATH
    call,       \* matcher harness: the function applied last
    ret,        \* matcher harness: what it returned
    wrote,      \* runner harness: the lines the child wrote, in order
    pipes,      \* runner harness: the lines written and not yet read, per stream
    emitted,    \* runner harness: the lines the runner printed, per channel
    child_status, \* the status of the child that ended last: None or Some(status)
    git_root,   \* what repository discovery from cwd yields: None or Some(dir)
    config,     \* the parsed configuration
    command,    \* the operation the program was invoked as
    dry_run,    \* args.dry_run
    have_config,   \* the configuration file is there
    no_searchback, \* the no-searchback option is set
    pc,         \* where the dispatch is
    entry_idx,  \* the profile the matching loop is at
    selected,   \* the profile whose command list was taken: None or Some(index)
    tools,      \* the command list taken: None or Some(StringOrVec)
    tool_idx,   \* the command the execution loop is at
    children,   \* the child processes outstanding
    started,    \* the commands a child was spawned for, in order
    codes,      \* the exit codes observed, in order
    printed,    \* the commands a dry run printed, in order
    status,     \* the process's exit status: None or Some(code)
    err         \* what ended the process early: None or Some(diagnostic)

env == <<cwd, fs, path_bins, git_root, config, command, dry_run, have_config, no_searchback>>
io == <<wrote, pipes, emitted, child_status>>
harness == <<call, ret, io>>
dispatch == <<pc, entry_idx, selected, tools, tool_idx, children, started, codes, printed,
              status, err>>
vars == <<repo_root, env, harness, dispatch>>

\* ------------------------------------------------------------------ bounds
MaxDepth == 2

\* ------------------------------------------------------------- filesystem
Names == {"a", "b"}
FileNames == {"bar", "baz"}

Dirs == UNION {[1..n -> Names] : n \in 0..MaxDepth}

None == <<>>
Some(x) == <<x>>

\* Path::parent(): None for the root, else the path without its last component
Parent(p) == IF Len(p) = 0 THEN None ELSE Some(SubSeq(p, 1, Len(p) - 1))

\* Path::is_file() of dir.join(file): a regular file
IsFile(dir, file) == [dir |-> dir, name |-> file, kind |-> "file"] \in fs

\* Path::try_exists() of dir.push(file): an entry of any kind
TryExists(dir, file) == \E k \in {"file", "dir"} : [dir |-> dir, name |-> file, kind |-> k] \in fs

\* Path::starts_with(base): component-wise prefix
StartsWith(p, base) == Len(base) <= Len(p) /\ SubSeq(p, 1, Len(base)) = base

\* ---------------------------------------------------- directory rule matcher
\* What a search returns: result is "true", "false" or "panic" (the unwrap of
\* a None parent), inspected the directories whose candidate was tested.
Outcome(r, seen) == [result |-> r, inspected |-> seen]

\* mutant: the root test comes before the candidate test
RECURSIVE BackLoopRootFirst(_, _, _, _)
BackLoopRootFirst(current_dir, root, file, seen) ==
    LET seen2 == Append(seen, current_dir) IN
    IF current_dir = root THEN Outcome("false", seen2)
    ELSE IF IsFile(current_dir, file) THEN Outcome("true", seen2)
    ELSE IF Parent(current_dir) = None THEN Outcome("panic", seen2)
    ELSE BackLoopRootFirst(Parent(current_dir)[1], root, file, seen2)

\* mutant: the walk does not stop at the root
RECURSIVE BackLoopPastRoot(_, _, _, _)
BackLoopPastRoot(current_dir, root, file, seen) ==
    LET seen2 == Append(seen, current_dir) IN
    IF IsFile(current_dir, file) THEN Outcome("true", seen2)
    ELSE IF Parent(current_dir) = None THEN Outcome("false", seen2)
    ELSE BackLoopPastRoot(Parent(current_dir)[1], root, file, seen2)

RECURSIVE BackLoop(_, _, _, _)
BackLoop(current_dir, root, file, seen) ==
    LET seen2 == Append(seen, current_dir) IN
    IF IsFile(current_dir, file) THEN Outcome("true", seen2)
    ELSE IF current_dir = root THEN Outcome("false", seen2)
    ELSE IF Parent(current_dir) = None THEN Outcome("panic", seen2)
    ELSE BackLoop(Parent(current_dir)[1], root, file, seen2)

back_search(c, root, file) == BackLoop(c, root, file, <<>>)

\* pathdiff::diff_paths(path, base) for two absolute normalised paths: the
\* common prefix is dropped, one ".." per remaining base component, then the
\* rest of path.  (It is None only when base is absolute and path is not.)
RECURSIVE CommonLen(_, _, _)
CommonLen(p, b, n) ==
    IF n < Len(p) /\ n < Len(b) /\ p[n + 1] = b[n + 1] THEN CommonLen(p, b, n + 1) ELSE n

diff_paths(path, base) ==
    LET k == CommonLen(path, base, 0) IN
    Some([i \in 1..(Len(base) - k) |-> ".."] \o SubSeq(path, k + 1, Len(path)))

\* mutant: a ".." component is passed over like "."
ComponentKindNoParent(c) == IF c \in {"..", "."} THEN "CurDir" ELSE "Normal"

\* std::path::Component of one component of the difference
ComponentKind(c) == IF c = ".." THEN "ParentDir" ELSE IF c = "." THEN "CurDir" ELSE "Normal"

\* mutant: the last component of the difference is not visited
RECURSIVE ForwardLoopStopsShort(_, _, _, _, _)
ForwardLoopStopsShort(path, comps, i, file, seen) ==
    IF i >= Len(comps) THEN Outcome("false", seen)
    ELSE IF ComponentKind(comps[i]) = "Normal" THEN
        LET path2 == Append(path, comps[i]) IN
        IF IsFile(path2, file) THEN Outcome("true", Append(seen, path2))
        ELSE ForwardLoopStopsShort(path2, comps, i + 1, file, Append(seen, path2))
    ELSE IF ComponentKind(comps[i]) = "CurDir"
         THEN ForwardLoopStopsShort(path, comps, i + 1, file, seen)
    ELSE Outcome("false", seen)

RECURSIVE ForwardLoop(_, _, _, _, _)
ForwardLoop(path, comps, i, file, seen) ==
    IF i > Len(comps) THEN Outcome("false", seen)
    ELSE IF ComponentKind(comps[i]) = "Normal" THEN
        LET path2 == Append(path, comps[i]) IN
        IF IsFile(path2, file) THEN Outcome("true", Append(seen, path2))
        ELSE ForwardLoop(path2, comps, i + 1, file, Append(seen, path2))
    ELSE IF ComponentKind(comps[i]) = "CurDir" THEN ForwardLoop(path, comps, i + 1, file, seen)
    ELSE Outcome("false", seen)

\* mutant: the root's own candidate is not tested
forward_searchSkipsRoot(c, root, file) ==
    LET diff == diff_paths(c, root) IN
    IF diff = None THEN Outcome("false", <<>>)
    ELSE ForwardLoop(root, diff[1], 1, file, <<>>)

forward_search(c, root, file) ==
    LET diff == diff_paths(c, root) IN
    IF diff = None THEN Outcome("false", <<>>)
    ELSE IF IsFile(root, file) THEN Outcome("true", <<root>>)
    ELSE ForwardLoop(root, diff[1], 1, file, <<root>>)

path_search(c, root, direction, file) ==
    IF direction = "backwards" THEN back_search(c, root, file)
    ELSE forward_search(c, root, file)

\* ------------------------------------------------------------ Entry::matches
\* StringOrVec::to_vec
to_vec(sv) == IF sv.single THEN <<sv.s>> ELSE sv.v

Single(x) == [single |-> TRUE, s |-> x]
Multiple(xs) == [single |-> FALSE, v |-> xs]

\* which::which(name).is_ok()
Which(name) == name \in path_bins

\* mutant: one resolvable binary is enough
BinsLoopAny(bins, i) == bins = <<>> \/ \E k \in i..Len(bins) : Which(bins[k])

\* for bin in bin.to_vec() { if which::which(&bin).is_err() { return false; } }
RECURSIVE BinsLoop(_, _)
BinsLoop(bins, i) ==
    IF i > Len(bins) THEN TRUE
    ELSE IF ~Which(bins[i]) THEN FALSE
    ELSE BinsLoop(bins, i + 1)

\* for file in file.name.to_vec() { if !path_search(..) { return false; } }
RECURSIVE FilesLoop(_, _, _, _, _)
FilesLoop(files, i, direction, c, root) ==
    IF i > Len(files) THEN "true"
    ELSE LET r == path_search(c, root, direction, files[i]).result IN
         IF r = "true" THEN FilesLoop(files, i + 1, direction, c, root) ELSE r

\* Entry::matches: "true", "false", or "panic" when a backwards search panics
matches(entry, c, root) ==
    IF entry.bin # None /\ ~BinsLoop(to_vec(entry.bin[1]), 1) THEN "false"
    ELSE IF entry.file # None
         THEN FilesLoop(to_vec(entry.file[1].name), 1, entry.file[1].search_direction, c, root)
         ELSE "true"

\* ------------------------------------------------------- matcher harness
\* No child is streamed outside the runner harness.
NoLines == [stdout |-> <<>>, stderr |-> <<>>]

StreamIdle ==
    /\ wrote = <<>>
    /\ pipes = NoLines
    /\ emitted = NoLines
    /\ child_status = None

\* The dispatch does not run in the harness specifications.
DispatchIdle ==
    /\ have_config = TRUE
    /\ no_searchback = FALSE
    /\ git_root = None
    /\ config = [entries |-> <<>>]
    /\ command = "build"
    /\ dry_run = FALSE
    /\ pc = "Idle"
    /\ entry_idx = 1
    /\ selected = None
    /\ tools = None
    /\ tool_idx = 1
    /\ children = 0
    /\ started = <<>>
    /\ codes = <<>>
    /\ printed = <<>>
    /\ status = None
    /\ err = None

\* The matcher's functions applied to every (cwd, repo_root) of the bounded
\* tree, the marker being a regular file in at most one directory and a
\* directory of the same name in at most one other.
Markers(kind) == {{}} \cup {{[dir |-> d, name |-> "bar", kind |-> kind]} : d \in Dirs}

FsChoices ==
    {f \cup g : f \in Markers("file"), g \in Markers("dir")} \
    {{[dir |-> d, name |-> "bar", kind |-> k] : k \in {"file", "dir"}} : d \in Dirs}

SearchInit ==
    /\ cwd \in Dirs
    /\ repo_root \in Dirs
    /\ fs \in FsChoices
    /\ path_bins = {}
    /\ call = None
    /\ ret = None
    /\ StreamIdle
    /\ DispatchIdle

CallBackSearch ==
    /\ call = None
    /\ \E file \in FileNames :
        /\ call' = Some([fn |-> "back_search", file |-> file])
        /\ ret' = Some(back_search(cwd, repo_root, file))
    /\ UNCHANGED <<repo_root, env, io, dispatch>>

CallForwardSearch ==
    /\ call = None
    /\ \E file \in FileNames :
        /\ call' = Some([fn |-> "forward_search", file |-> file])
        /\ ret' = Some(forward_search(cwd, repo_root, file))
    /\ UNCHANGED <<repo_root, env, io, dispatch>>

SearchNext == CallBackSearch \/ CallForwardSearch

SpecSearch == SearchInit /\ [][SearchNext]_vars

\* Entry::matches applied to every profile shape: no, one or two required
\* binaries, no, one or two required files in either direction.
Directions == {"backwards", "forwards"}

NoTools == [format |-> None, check |-> None, build |-> None, test |-> None, run |-> None]

BinChoices == {None, Some(Single("foo")), Some(Multiple(<<"sh", "foo">>))}

FileChoices ==
    {None} \cup
    {Some([name |-> n, search_direction |-> d]) :
        n \in {Single("bar"), Multiple(<<"bar", "baz">>)}, d \in Directions}

MatchEntries ==
    {[name |-> "e", bin |-> b, file |-> f, tools |-> NoTools] : b \in BinChoices, f \in FileChoices}

\* "bar" a regular file in at most one directory, "baz" in cwd or nowhere
MatchInit ==
    /\ cwd \in Dirs
    /\ repo_root \in Dirs
    /\ \E f \in Markers("file"), z \in BOOLEAN :
        fs = f \cup (IF z THEN {[dir |-> cwd, name |-> "baz", kind |-> "file"]} ELSE {})
    /\ path_bins \in {{"sh"}, {"sh", "foo"}}
    /\ call = None
    /\ ret = None
    /\ StreamIdle
    /\ DispatchIdle

CallMatches ==
    /\ call = None
    /\ \E entry \in MatchEntries :
        /\ call' = Some([fn |-> "matches", entry |-> entry])
        /\ ret' = Some(matches(entry, cwd, repo_root))
    /\ UNCHANGED <<repo_root, env, io, dispatch>>

MatchNext == CallMatches

SpecMatch == MatchInit /\ [][MatchNext]_vars

\* ------------------------------------------------------ main.rs: dispatch
\* The process's exit status when main returns Err, when a thread panics,
\* and when no tool matched the config rules.
ErrExit == 1
PanicExit == 101
NoToolExit == 1
NoConfigExit == 1

\* how a spawned child's status() comes back: Exited(code), or not Exited
ChildCodes == {0, 1, 2}
ChildStatuses == {[exited |-> TRUE, code |-> c] : c \in ChildCodes} \cup {[exited |-> FALSE]}

Operations == {"format", "check", "build", "test", "run"}

\* match command { Command::Format => entry.tools.format.as_ref(), .. }
ToolsFor(t, op) ==
    CASE op = "format" -> t.format
      [] op = "check" -> t.check
      [] op = "build" -> t.build
      [] op = "test" -> t.test
      [] op = "run" -> t.run

\* str::split_whitespace().collect(): the maximal runs of non-whitespace
Whitespace == {" ", "\t"}

RECURSIVE SplitLoop(_, _, _, _)
SplitLoop(str, i, word, parts) ==
    IF i > Len(str) THEN (IF word = "" THEN parts ELSE Append(parts, word))
    ELSE IF str[i] \in Whitespace
         THEN SplitLoop(str, i + 1, "", IF word = "" THEN parts ELSE Append(parts, word))
         ELSE SplitLoop(str, i + 1, word \o str[i], parts)

split_whitespace(str) == SplitLoop(str, 1, "", <<>>)

\* the process ends with status code; why is the diagnostic, None on Ok(())
Exit(code, why) == pc' = "Exited" /\ status' = Some(code) /\ err' = why

\* mutant: without a configuration file the dispatch goes on with no profile
LoadConfigDefaults ==
    /\ pc = "Loading"
    /\ pc' = "Resolving"
    /\ UNCHANGED <<repo_root, env, harness, entry_idx, selected, tools, tool_idx, children,
                   started, codes, printed, status, err>>

\* if !config_file.is_file() { error!("Please create a cbtr config .."); exit(1) }
LoadConfig ==
    /\ pc = "Loading"
    /\ IF ~have_config
       THEN Exit(NoConfigExit, Some("NoConfig"))
       ELSE pc' = "Resolving" /\ UNCHANGED <<status, err>>
    /\ UNCHANGED <<repo_root, env, harness, entry_idx, selected, tools, tool_idx, children,
                   started, codes, printed>>

\* let root = match repo_root(&cwd) { Ok(root) => root, Err(_) => cwd.clone() }
LocateRoot ==
    /\ pc = "Resolving"
    /\ repo_root' = IF git_root = None THEN cwd ELSE git_root[1]
    /\ pc' = "Matching"
    /\ UNCHANGED <<env, harness, entry_idx, selected, tools, tool_idx, children, started,
                   codes, printed, status, err>>

\* one iteration of `for entry in &config.entries`
CheckEntry ==
    /\ pc = "Matching"
    /\ entry_idx <= Len(config.entries)
    /\ LET entry == config.entries[entry_idx]
           m == matches(entry, cwd, repo_root)
           t == ToolsFor(entry.tools, command)
       IN IF m = "panic" THEN
              /\ Exit(PanicExit, Some("Panic"))
              /\ UNCHANGED <<entry_idx, selected, tools>>
          ELSE IF m = "true" THEN
              /\ tools' = t
              /\ IF t # None
                 THEN /\ selected' = Some(entry_idx)
                      /\ pc' = "Selecting"
                      /\ UNCHANGED entry_idx
                 ELSE /\ entry_idx' = entry_idx + 1
                      /\ UNCHANGED <<pc, selected>>
              /\ UNCHANGED <<status, err>>
          ELSE
              /\ entry_idx' = entry_idx + 1
              /\ UNCHANGED <<pc, selected, tools, status, err>>
    /\ UNCHANGED <<repo_root, env, harness, tool_idx, children, started, codes, printed>>

\* the loop ran out of entries
EntriesDone ==
    /\ pc = "Matching"
    /\ entry_idx > Len(config.entries)
    /\ pc' = "Selecting"
    /\ UNCHANGED <<repo_root, env, harness, entry_idx, selected, tools, tool_idx, children,
                   started, codes, printed, status, err>>

\* let Some(tools) = tools else { error!(..); std::process::exit(1) }
SelectTools ==
    /\ pc = "Selecting"
    /\ IF tools = None
       THEN Exit(NoToolExit, Some("NoTool"))
       ELSE pc' = "Executing" /\ UNCHANGED <<status, err>>
    /\ UNCHANGED <<repo_root, env, harness, entry_idx, selected, tools, tool_idx, children,
                   started, codes, printed>>

ToolList == to_vec(tools[1])

\* mutant: the dry run spawns the command it prints
DryRunToolSpawns ==
    /\ pc = "Executing"
    /\ tool_idx <= Len(ToolList)
    /\ dry_run
    /\ printed' = Append(printed, ToolList[tool_idx])
    /\ started' = Append(started, ToolList[tool_idx])
    /\ tool_idx' = tool_idx + 1
    /\ UNCHANGED <<repo_root, env, harness, pc, entry_idx, selected, tools, children, codes,
                   status, err>>

\* mutant: the dry run prints the list last command first
DryRunToolPrepends ==
    /\ pc = "Executing"
    /\ tool_idx <= Len(ToolList)
    /\ dry_run
    /\ printed' = <<ToolList[tool_idx]>> \o printed
    /\ tool_idx' = tool_idx + 1
    /\ UNCHANGED <<repo_root, env, harness, pc, entry_idx, selected, tools, children, started,
                   codes, status, err>>

\* one iteration of `for tool in tools.to_vec()` with args.dry_run set
DryRunTool ==
    /\ pc = "Executing"
    /\ tool_idx <= Len(ToolList)
    /\ dry_run
    /\ printed' = Append(printed, ToolList[tool_idx])
    /\ tool_idx' = tool_idx + 1
    /\ UNCHANGED <<repo_root, env, harness, pc, entry_idx, selected, tools, children, started,
                   codes, status, err>>

\* mutant: a program that does not resolve is reported and the loop goes on
StartToolSkipsMissing ==
    /\ pc = "Executing"
    /\ tool_idx <= Len(ToolList)
    /\ ~dry_run
    /\ LET parts == split_whitespace(ToolList[tool_idx]) IN
       IF parts = <<>> THEN
           /\ Exit(PanicExit, Some("Panic"))
           /\ UNCHANGED <<children, started, tool_idx>>
       ELSE IF ~Which(parts[1]) THEN
           /\ err' = Some("NotFound")
           /\ tool_idx' = tool_idx + 1
           /\ UNCHANGED <<pc, status, children, started>>
       ELSE
           /\ children' = children + 1
           /\ started' = Append(started, ToolList[tool_idx])
           /\ pc' = "Running"
           /\ UNCHANGED <<status, err, tool_idx>>
    /\ UNCHANGED <<repo_root, env, harness, entry_idx, selected, tools, codes, printed>>

\* mutant: the child is spawned and the loop goes on without awaiting it
StartToolNoAwait ==
    /\ pc = "Executing"
    /\ tool_idx <= Len(ToolList)
    /\ ~dry_run
    /\ LET parts == split_whitespace(ToolList[tool_idx]) IN
       IF parts = <<>> THEN
           /\ Exit(PanicExit, Some("Panic"))
           /\ UNCHANGED <<children, started, tool_idx>>
       ELSE IF ~Which(parts[1]) THEN
           /\ Exit(ErrExit, Some("NotFound"))
           /\ UNCHANGED <<children, started, tool_idx>>
       ELSE
           /\ children' = children + 1
           /\ started' = Append(started, ToolList[tool_idx])
           /\ tool_idx' = tool_idx + 1
           /\ UNCHANGED <<pc, status, err>>
    /\ UNCHANGED <<repo_root, env, harness, entry_idx, selected, tools, codes, printed>>

\* the same iteration without dry_run, up to the spawn inside run(): parts[0]
\* panics on no token, which::which(cmd)? and a failed spawn return Err
StartTool ==
    /\ pc = "Executing"
    /\ tool_idx <= Len(ToolList)
    /\ ~dry_run
    /\ LET parts == split_whitespace(ToolList[tool_idx]) IN
       IF parts = <<>> THEN
           /\ Exit(PanicExit, Some("Panic"))
           /\ UNCHANGED <<children, started>>
       ELSE IF ~Which(parts[1]) THEN
           /\ Exit(ErrExit, Some("NotFound"))
           /\ UNCHANGED <<children, started>>
       ELSE \E spawned \in BOOLEAN :
           IF spawned
           THEN /\ children' = children + 1
                /\ started' = Append(started, ToolList[tool_idx])
                /\ pc' = "Running"
                /\ UNCHANGED <<status, err>>
           ELSE /\ Exit(ErrExit, Some("SpawnFailed"))
                /\ UNCHANGED <<children, started>>
    /\ UNCHANGED <<repo_root, env, harness, entry_idx, selected, tools, tool_idx, codes, printed>>

\* mutant: a non-zero exit code is reported and the loop goes on
ChildExitsNoFailFast ==
    /\ pc = "Running"
    /\ children' = children - 1
    /\ \E st \in ChildStatuses :
        /\ child_status' = Some(st)
        /\ IF ~st.exited THEN
               /\ Exit(ErrExit, Some("NotExited"))
               /\ UNCHANGED <<tool_idx, codes>>
           ELSE
               /\ codes' = Append(codes, st.code)
               /\ tool_idx' = tool_idx + 1
               /\ pc' = "Executing"
               /\ UNCHANGED <<status, err>>
    /\ UNCHANGED <<repo_root, env, call, ret, wrote, pipes, emitted, entry_idx, selected,
                   tools, started, printed>>

\* mutant: a child that ended without an exit code counts as exit code 0
ChildExitsSignalAsZero ==
    /\ pc = "Running"
    /\ children' = children - 1
    /\ \E st \in ChildStatuses :
        /\ child_status' = Some(st)
        /\ LET code == IF st.exited THEN st.code ELSE 0 IN
               /\ codes' = Append(codes, code)
               /\ IF code # 0
                  THEN Exit(code, Some("CommandFailed")) /\ UNCHANGED tool_idx
                  ELSE /\ tool_idx' = tool_idx + 1
                       /\ pc' = "Executing"
                       /\ UNCHANGED <<status, err>>
    /\ UNCHANGED <<repo_root, env, call, ret, wrote, pipes, emitted, entry_idx, selected,
                   tools, started, printed>>

\* the rest of run() and of the iteration: the child ends, its status is read
ChildExits ==
    /\ pc = "Running"
    /\ children' = children - 1
    /\ \E st \in ChildStatuses :
        /\ child_status' = Some(st)
        /\ IF ~st.exited THEN
               /\ Exit(ErrExit, Some("NotExited"))
               /\ UNCHANGED <<tool_idx, codes>>
           ELSE
               /\ codes' = Append(codes, st.code)
               /\ IF st.code # 0
                  THEN Exit(st.code, Some("CommandFailed")) /\ UNCHANGED tool_idx
                  ELSE /\ tool_idx' = tool_idx + 1
                       /\ pc' = "Executing"
                       /\ UNCHANGED <<status, err>>
    /\ UNCHANGED <<repo_root, env, call, ret, wrote, pipes, emitted, entry_idx, selected,
                   tools, started, printed>>

\* let (message_type, message) = item?; an item of the stream is an Err:
\* run() returns it while the child may still be there
StreamFails ==
    /\ pc = "Running"
    /\ Exit(ErrExit, Some("StreamError"))
    /\ UNCHANGED <<repo_root, env, harness, entry_idx, selected, tools, tool_idx, children,
                   started, codes, printed>>

\* mutant: the loop ends one command short
ToolsDoneEarly ==
    /\ pc = "Executing"
    /\ tool_idx >= Len(ToolList)
    /\ Exit(0, None)
    /\ UNCHANGED <<repo_root, env, harness, entry_idx, selected, tools, tool_idx, children,
                   started, codes, printed>>

\* the list is exhausted: Ok(())
ToolsDone ==
    /\ pc = "Executing"
    /\ tool_idx > Len(ToolList)
    /\ Exit(0, None)
    /\ UNCHANGED <<repo_root, env, harness, entry_idx, selected, tools, tool_idx, children,
                   started, codes, printed>>

\* ------------------------------------------------------------ configurations
\* command strings
MB == <<"m", " ", "b">>
NN == <<"n">>
MM == <<" ", "m", "\t">>
Blank == <<" ">>

ToolsA == [NoTools EXCEPT !.build = Some(Multiple(<<MB, NN, MM>>)), !.test = Some(Single(MB))]
ToolsB == [NoTools EXCEPT !.build = Some(Single(NN)), !.format = Some(Multiple(<<MM, Blank>>))]
ToolsC == [NoTools EXCEPT !.build = Some(Multiple(<<MM, MB>>)), !.check = Some(Multiple(<<>>)),
                          !.run = Some(Single(<<>>))]

EntryA == [name |-> "A", bin |-> Some(Single("foo")),
           file |-> Some([name |-> Single("bar"), search_direction |-> "backwards"]),
           tools |-> ToolsA]
EntryB == [name |-> "B", bin |-> None, file |-> None, tools |-> ToolsB]
EntryC == [name |-> "C", bin |-> None,
           file |-> Some([name |-> Multiple(<<"bar", "baz">>), search_direction |-> "forwards"]),
           tools |-> ToolsC]
EntryD == [name |-> "D", bin |-> None, file |-> None, tools |-> NoTools]

Entries == {EntryA, EntryB, EntryC, EntryD}

MaxEntries == 2

Configs == {[entries |-> es] : es \in UNION {[1..n -> Entries] : n \in 0..MaxEntries}}

\* working directories with what repository discovery finds from them
Places ==
    {[cwd |-> <<"a", "b">>, git_root |-> Some(<<"a">>)],
     [cwd |-> <<"a", "b">>, git_root |-> None],
     [cwd |-> <<"a">>, git_root |-> Some(<<>>)]}

Filesystems ==
    {{[dir |-> <<"a">>, name |-> "bar", kind |-> "file"]},
     {[dir |-> <<"a">>, name |-> "bar", kind |-> "file"],
      [dir |-> <<>>, name |-> "baz", kind |-> "file"]}}

Unlocated == <<"?">>

Init ==
    /\ \E p \in Places : cwd = p.cwd /\ git_root = p.git_root
    /\ repo_root = Unlocated
    /\ fs \in Filesystems
    /\ path_bins \in {{"foo", "m", "n"}, {"m", "n"}, {"foo", "m"}}
    /\ have_config \in BOOLEAN
    /\ config \in (IF have_config THEN Configs ELSE {[entries |-> <<>>]})
    /\ no_searchback = FALSE
    /\ command \in Operations
    /\ dry_run \in BOOLEAN
    /\ call = None
    /\ ret = None
    /\ StreamIdle
    /\ pc = "Loading"
    /\ entry_idx = 1
    /\ selected = None
    /\ tools = None
    /\ tool_idx = 1
    /\ children = 0
    /\ started = <<>>
    /\ codes = <<>>
    /\ printed = <<>>
    /\ status = None
    /\ err = None

Next ==
    \/ LoadConfig
    \/ LocateRoot
    \/ CheckEntry
    \/ EntriesDone
    \/ SelectTools
    \/ DryRunTool
    \/ StartTool
    \/ ChildExits
    \/ StreamFails
    \/ ToolsDone

Spec == Init /\ [][Next]_vars

\* ------------------------------------------------------------ runner harness
\* One call of run() of main.rs, and of Command::run() of lib.rs, with the
\* child writing lines on its two streams while the runner reads them.  The
\* stream of the runner yields the lines of each pipe in the order written,
\* in any interleaving of the two pipes, and ends when the child has ended
\* and both pipes are drained.
MaxLines == 2

INDENT == "   "
DEFAULT_INDENT == "  | "

Streams == {"stdout", "stderr"}
Messages == {"x", "y"}

\* settings.indent, or DEFAULT_INDENT when the settings have none
Indents == {DEFAULT_INDENT, "> "}

Ok(code) == [ok |-> TRUE, code |-> code, why |-> ""]
Err(why) == [ok |-> FALSE, code |-> 0, why |-> why]

RunInit ==
    /\ cwd = <<>>
    /\ repo_root = <<>>
    /\ fs = {}
    /\ path_bins = {"m"}
    /\ call = None
    /\ ret = None
    /\ StreamIdle
    /\ DispatchIdle

Streaming(fn) == call # None /\ call[1].fn = fn /\ ret = None

\* run(cmd, args) up to the stream: which::which(cmd)?, spawn or bail
RunSpawn ==
    /\ call = None
    /\ \E cmd \in {"m", "n"}, spawned \in BOOLEAN :
        /\ call' = Some([fn |-> "run", cmd |-> cmd, indent |-> INDENT])
        /\ IF ~Which(cmd) THEN ret' = Some(Err("NotFound")) /\ UNCHANGED children
           ELSE IF ~spawned THEN ret' = Some(Err("SpawnFailed")) /\ UNCHANGED children
           ELSE children' = children + 1 /\ UNCHANGED ret
    /\ UNCHANGED <<repo_root, env, io, pc, entry_idx, selected, tools, tool_idx, started,
                   codes, printed, status, err>>

\* Command::new(&args, &indent) and the start of cmd.run()
LibRunSpawn ==
    /\ call = None
    /\ \E indent \in Indents :
        call' = Some([fn |-> "Command::run", cmd |-> "m", indent |-> indent])
    /\ children' = children + 1
    /\ UNCHANGED <<repo_root, env, io, ret, pc, entry_idx, selected, tools, tool_idx, started,
                   codes, printed, status, err>>

\* the child writes one line on one of its streams
ChildWrites ==
    /\ Streaming("run") \/ Streaming("Command::run")
    /\ child_status = None
    /\ Len(wrote) < MaxLines
    /\ \E t \in Streams, message \in Messages :
        /\ wrote' = Append(wrote, [stream |-> t, message |-> message])
        /\ pipes' = [pipes EXCEPT ![t] = Append(@, message)]
    /\ UNCHANGED <<repo_root, env, call, ret, emitted, child_status, dispatch>>

\* the child ends, with an exit code or without one
ChildEnds ==
    /\ Streaming("run") \/ Streaming("Command::run")
    /\ child_status = None
    /\ child_status' \in {Some(st) : st \in ChildStatuses}
    /\ UNCHANGED <<repo_root, env, call, ret, wrote, pipes, emitted, dispatch>>

\* mutant: every line goes to standard output
StreamItemAllToStdout ==
    /\ Streaming("run")
    /\ \E t \in Streams, item_ok \in BOOLEAN :
        /\ pipes[t] # <<>>
        /\ pipes' = [pipes EXCEPT ![t] = Tail(@)]
        /\ IF item_ok
           THEN /\ emitted' = [emitted EXCEPT !.stdout = Append(@, INDENT \o Head(pipes[t]))]
                /\ UNCHANGED ret
           ELSE /\ ret' = Some(Err("StreamError"))
                /\ UNCHANGED emitted
    /\ UNCHANGED <<repo_root, env, call, wrote, child_status, dispatch>>

\* one iteration of `while let Some(item) = stream.next().await`: item? and
\* the match on message_type
StreamItem ==
    /\ Streaming("run")
    /\ \E t \in Streams, item_ok \in BOOLEAN :
        /\ pipes[t] # <<>>
        /\ pipes' = [pipes EXCEPT ![t] = Tail(@)]
        /\ IF item_ok
           THEN /\ emitted' = [emitted EXCEPT ![t] = Append(@, INDENT \o Head(pipes[t]))]
                /\ UNCHANGED ret
           ELSE /\ ret' = Some(Err("StreamError"))
                /\ UNCHANGED emitted
    /\ UNCHANGED <<repo_root, env, call, wrote, child_status, dispatch>>

\* the stream has ended: child.status().await? and the let-else on Exited
RunStatus ==
    /\ Streaming("run")
    /\ child_status # None
    /\ pipes = NoLines
    /\ ret' = Some(IF child_status[1].exited THEN Ok(child_status[1].code)
                   ELSE Err("NotExited"))
    /\ children' = children - 1
    /\ UNCHANGED <<repo_root, env, call, io, pc, entry_idx, selected, tools, tool_idx, started,
                   codes, printed, status, err>>

\* handle_stdout / handle_stderr called with a line of the child
LibHandleLine ==
    /\ Streaming("Command::run")
    /\ \E t \in Streams :
        /\ pipes[t] # <<>>
        /\ pipes' = [pipes EXCEPT ![t] = Tail(@)]
        /\ emitted' = [emitted EXCEPT ![t] = Append(@, call[1].indent \o Head(pipes[t]))]
    /\ UNCHANGED <<repo_root, env, call, ret, wrote, child_status, dispatch>>

\* cmd.run() returns the child's return code
LibRunReturns ==
    /\ Streaming("Command::run")
    /\ child_status # None
    /\ pipes = NoLines
    /\ ret' = Some(IF child_status[1].exited THEN Ok(child_status[1].code)
                   ELSE Err("NotExited"))
    /\ children' = children - 1
    /\ UNCHANGED <<repo_root, env, call, io, pc, entry_idx, selected, tools, tool_idx, started,
                   codes, printed, status, err>>

RunNext ==
    \/ RunSpawn
    \/ LibRunSpawn
    \/ ChildWrites
    \/ ChildEnds
    \/ StreamItem
    \/ RunStatus
    \/ LibHandleLine
    \/ LibRunReturns

SpecRun == RunInit /\ [][RunNext]_vars

\* ------------------------------------------------------ no-searchback option
\* The root used for matching: the working directory when the option forces
\* it or when discovery finds no repository, else the repository found.
RootForMatching(c, found, forced) == IF forced \/ found = None THEN c ELSE found[1]

\* what discovery from c can find: nothing, or c or one of its ancestors
GitRoots(c) == {None} \cup {Some(SubSeq(c, 1, n)) : n \in 0..Len(c)}

OptionInit ==
    /\ cwd \in Dirs
    /\ git_root \in GitRoots(cwd)
    /\ repo_root = Unlocated
    /\ fs \in FsChoices
    /\ path_bins = {}
    /\ no_searchback \in BOOLEAN
    /\ have_config = TRUE
    /\ config = [entries |-> <<>>]
    /\ command = "build"
    /\ dry_run = FALSE
    /\ call = None
    /\ ret = None
    /\ StreamIdle
    /\ pc = "Idle"
    /\ entry_idx = 1
    /\ selected = None
    /\ tools = None
    /\ tool_idx = 1
    /\ children = 0
    /\ started = <<>>
    /\ codes = <<>>
    /\ printed = <<>>
    /\ status = None
    /\ err = None

ResolveRoot ==
    /\ repo_root = Unlocated
    /\ repo_root' = RootForMatching(cwd, git_root, no_searchback)
    /\ UNCHANGED <<env, harness, dispatch>>

\* a file requirement evaluated from the resolved root
SearchFromRoot ==
    /\ repo_root # Unlocated
    /\ call = None
    /\ \E direction \in Directions, file \in FileNames :
        /\ call' = Some([fn |-> "path_search", direction |-> direction, file |-> file])
        /\ ret' = Some(path_search(cwd, repo_root, direction, file))
    /\ UNCHANGED <<repo_root, env, io, dispatch>>

OptionNext == ResolveRoot \/ SearchFromRoot

SpecOption == OptionInit /\ [][OptionNext]_vars

\* ------------------------------------------------------ configuration merge
\* mutant: the other list is put in front
appendInFront(self, other) == [self EXCEPT !.entries = other.entries \o self.entries]

\* Config::append: self.entries.append(&mut other.entries)
append(self, other) == [self EXCEPT !.entries = self.entries \o other.entries]

\* merge(repo_config, user_config): both present, the repository list with the
\* user list appended; one present, that one; neither, None ("no
\* configuration found")
merge(repo_config, user_config) ==
    IF repo_config # None /\ user_config # None
    THEN Some(append(repo_config[1], user_config[1]))
    ELSE IF repo_config # None THEN repo_config
    ELSE user_config

Sources == {None} \cup {Some(c) : c \in Configs}

MergeInit ==
    /\ cwd = <<>>
    /\ repo_root = <<>>
    /\ fs = {}
    /\ path_bins = {}
    /\ call = None
    /\ ret = None
    /\ StreamIdle
    /\ DispatchIdle

CallMerge ==
    /\ call = None
    /\ \E repo_config \in Sources, user_config \in Sources :
        /\ call' = Some([fn |-> "merge", repo_config |-> repo_config,
                         user_config |-> user_config])
        /\ ret' = Some(merge(repo_config, user_config))
    /\ UNCHANGED <<repo_root, env, io, dispatch>>

MergeNext == CallMerge

SpecMerge == MergeInit /\ [][MergeNext]_vars

\* The steps main() takes by itself.  ChildExits is the child's to take: a
\* child that never ends blocks the dispatch, so no fairness is put on it.
Program ==
    \/ LoadConfig \/ LocateRoot \/ CheckEntry \/ EntriesDone \/ SelectTools
    \/ DryRunTool \/ StartTool \/ ToolsDone

FairSpec == Spec /\ WF_vars(Program)

\* The dispatch when every child that was spawned ends: child.status().await
\* comes back.
TerminatingSpec == FairSpec /\ WF_vars(ChildExits)

\* ------------------------------------------------- a dry run, then a real run
\* The program is invoked with --dry-run and, once that run has ended, again
\* without it: same configuration, working directory, repository, $PATH and
\* operation.  What the dry run selected and printed is kept in ret.
TwiceInit == Init /\ dry_run

Rerun ==
    /\ pc = "Exited"
    /\ dry_run
    /\ call = None
    /\ call' = Some([fn |-> "main", dry_run |-> TRUE])
    /\ ret' = Some([selected |-> selected, printed |-> printed, status |-> status])
    /\ dry_run' = FALSE
    /\ repo_root' = Unlocated
    /\ pc' = "Loading"
    /\ entry_idx' = 1
    /\ selected' = None
    /\ tools' = None
    /\ tool_idx' = 1
    /\ children' = 0
    /\ started' = <<>>
    /\ codes' = <<>>
    /\ printed' = <<>>
    /\ status' = None
    /\ err' = None
    /\ UNCHANGED <<cwd, fs, path_bins, git_root, config, command, have_config, no_searchback,
                   io>>

TwiceNext == Next \/ Rerun

SpecTwice == TwiceInit /\ [][TwiceNext]_vars

\* ------------------------------------------------------- lib.rs: dispatch
\* PathBuf::pop(): drops the last component; the root is left as it is
Pop(p) == IF Len(p) = 0 THEN p ELSE SubSeq(p, 1, Len(p) - 1)

\* nammed_file_exists(..).is_some(): "true", "false", or "hang" when the loop
\* comes back to the directory it has just tested (the root, which pop leaves)
RECURSIVE NammedLoop(_, _, _)
NammedLoop(current_dir, root, file_name) ==
    IF TryExists(current_dir, file_name) THEN "true"
    ELSE LET popped == Pop(current_dir) IN
         IF ~StartsWith(popped, root) THEN "false"
         ELSE IF popped = current_dir THEN "hang"
         ELSE NammedLoop(popped, root, file_name)

nammed_file_exists(file_name, current_dir, root) == NammedLoop(current_dir, root, file_name)

\* for required_file in target.detect { .. found_all_requirements = false; break; }
RECURSIVE DetectLoop(_, _, _, _)
DetectLoop(detect, i, c, root) ==
    IF i > Len(detect) THEN "true"
    ELSE LET r == nammed_file_exists(detect[i], c, root) IN
         IF r = "true" THEN DetectLoop(detect, i + 1, c, root) ELSE r

LibOperations == {"check", "build", "test", "run"}

\* match operation { Operation::Check => target.check, .. }
CommandsFor(target, op) ==
    CASE op = "check" -> target.check
      [] op = "build" -> target.build
      [] op = "test" -> target.test
      [] op = "run" -> target.run

\* match config_file.canonicalize() { .., Err(e) => bail!("Unable to read config file") }
LibLoadConfig ==
    /\ pc = "LibLoading"
    /\ IF ~have_config
       THEN Exit(ErrExit, Some("NoConfig"))
       ELSE pc' = "LibResolving" /\ UNCHANGED <<status, err>>
    /\ UNCHANGED <<repo_root, env, harness, entry_idx, selected, tools, tool_idx, children,
                   started, codes, printed>>

\* let repo = gix::discover(current_working_dir.clone())?;
LibLocateRoot ==
    /\ pc = "LibResolving"
    /\ IF git_root = None
       THEN Exit(ErrExit, Some("NoRepository")) /\ UNCHANGED repo_root
       ELSE repo_root' = git_root[1] /\ pc' = "LibMatching" /\ UNCHANGED <<status, err>>
    /\ UNCHANGED <<env, harness, entry_idx, selected, tools, tool_idx, children, started,
                   codes, printed>>

\* one iteration of `for target in config.targets` up to its command loop
LibCheckTarget ==
    /\ pc = "LibMatching"
    /\ entry_idx <= Len(config.targets)
    /\ LET target == config.targets[entry_idx]
           found_all_requirements == DetectLoop(target.detect, 1, cwd, repo_root)
           commands == CommandsFor(target, command)
       IN IF found_all_requirements = "hang" THEN
              /\ pc' = "Hung"
              /\ UNCHANGED <<entry_idx, selected, tools, status, err>>
          ELSE IF found_all_requirements = "true" THEN
              IF commands = None
              THEN /\ Exit(ErrExit, Some("NoOperation"))
                   /\ UNCHANGED <<entry_idx, selected, tools>>
              ELSE /\ tools' = commands
                   /\ selected' = Some(entry_idx)
                   /\ pc' = "LibExecuting"
                   /\ UNCHANGED <<entry_idx, status, err>>
          ELSE
              /\ entry_idx' = entry_idx + 1
              /\ UNCHANGED <<pc, selected, tools, status, err>>
    /\ UNCHANGED <<repo_root, env, harness, tool_idx, children, started, codes, printed>>

\* the loop ran out of targets: Ok(())
LibTargetsDone ==
    /\ pc = "LibMatching"
    /\ entry_idx > Len(config.targets)
    /\ Exit(0, None)
    /\ UNCHANGED <<repo_root, env, harness, entry_idx, selected, tools, tool_idx, children,
                   started, codes, printed>>

\* one iteration of `for c in commands` up to the spawn inside cmd.run():
\* what the runner does with no token at all is not in this repository (it
\* fails, by Err or by panic); a program that does not resolve is an Err
LibStartCommand ==
    /\ pc = "LibExecuting"
    /\ tool_idx <= Len(tools[1])
    /\ LET args == split_whitespace(tools[1][tool_idx]) IN
       IF args = <<>> THEN
           /\ \E e \in {[code |-> ErrExit, why |-> "SpawnFailed"], [code |-> PanicExit, why |-> "Panic"]} :
               Exit(e.code, Some(e.why))
           /\ UNCHANGED <<children, started>>
       ELSE IF ~Which(args[1]) THEN
           /\ Exit(ErrExit, Some("SpawnFailed"))
           /\ UNCHANGED <<children, started>>
       ELSE
           /\ children' = children + 1
           /\ started' = Append(started, tools[1][tool_idx])
           /\ pc' = "LibRunning"
           /\ UNCHANGED <<status, err>>
    /\ UNCHANGED <<repo_root, env, harness, entry_idx, selected, tools, tool_idx, codes, printed>>

\* let return_code = cmd.run().await?; println!(..): the loop goes on
\* whatever the code is
LibChildExits ==
    /\ pc = "LibRunning"
    /\ children' = children - 1
    /\ \E st \in ChildStatuses :
        IF ~st.exited THEN
            /\ Exit(ErrExit, Some("NotExited"))
            /\ UNCHANGED <<tool_idx, codes>>
        ELSE
            /\ codes' = Append(codes, st.code)
            /\ tool_idx' = tool_idx + 1
            /\ pc' = "LibExecuting"
            /\ UNCHANGED <<status, err>>
    /\ UNCHANGED <<repo_root, env, harness, entry_idx, selected, tools, started, printed>>

\* break; // Skip any remaining targets.  Then Ok(())
LibCommandsDone ==
    /\ pc = "LibExecuting"
    /\ tool_idx > Len(tools[1])
    /\ Exit(0, None)
    /\ UNCHANGED <<repo_root, env, harness, entry_idx, selected, tools, tool_idx, children,
                   started, codes, printed>>

NoCommands == [check |-> None, build |-> None, test |-> None, run |-> None]

TargetA == [NoCommands EXCEPT !.build = Some(<<MB, NN>>), !.test = Some(<<MM>>)]
              @@ [name |-> "A", detect |-> <<"bar">>]
TargetB == [NoCommands EXCEPT !.build = Some(<<NN>>), !.check = Some(<<Blank>>)]
              @@ [name |-> "B", detect |-> <<>>]
TargetC == [NoCommands EXCEPT !.run = Some(<<MB>>), !.check = Some(<<>>)]
              @@ [name |-> "C", detect |-> <<"bar", "baz">>]

Targets == {TargetA, TargetB, TargetC}

LibConfigs == {[targets |-> ts] : ts \in UNION {[1..n -> Targets] : n \in 0..MaxEntries}}

LibPlaces ==
    Places \cup {[cwd |-> <<"a", "b">>, git_root |-> Some(<<"a", "b">>)]}

LibInit ==
    /\ \E p \in LibPlaces : cwd = p.cwd /\ git_root = p.git_root
    /\ repo_root = Unlocated
    /\ fs \in Filesystems \cup {{}}
    /\ path_bins \in {{"m", "n"}, {"m"}}
    /\ have_config \in BOOLEAN
    /\ config \in (IF have_config THEN LibConfigs ELSE {[targets |-> <<>>]})
    /\ no_searchback = FALSE
    /\ command \in LibOperations
    /\ dry_run = FALSE
    /\ call = None
    /\ ret = None
    /\ StreamIdle
    /\ pc = "LibLoading"
    /\ entry_idx = 1
    /\ selected = None
    /\ tools = None
    /\ tool_idx = 1
    /\ children = 0
    /\ started = <<>>
    /\ codes = <<>>
    /\ printed = <<>>
    /\ status = None
    /\ err = None

LibNext ==
    \/ LibLoadConfig
    \/ LibLocateRoot
    \/ LibCheckTarget
    \/ LibTargetsDone
    \/ LibStartCommand
    \/ LibChildExits
    \/ LibCommandsDone

SpecLib == LibInit /\ [][LibNext]_vars

\* =============================================================== properties
\* the profiles whose preconditions hold, once the repository root is known
Located == pc \notin {"Idle", "Loading", "Resolving", "LibLoading", "LibResolving"} /\ repo_root # Unlocated

Satisfied(i) == matches(config.entries[i], cwd, repo_root) = "true"

FirstSatisfied ==
    IF \E i \in 1..Len(config.entries) : Satisfied(i)
    THEN Some(CHOOSE i \in 1..Len(config.entries) : Satisfied(i) /\ \A j \in 1..(i - 1) : ~Satisfied(j))
    ELSE None

\* C1: fail-fast.  Once a command has returned a non-zero exit code it is the
\* last command a child was spawned for, no child is left, and the process
\* has ended with exactly that code as its status.
C1_FailFast ==
    \A i \in 1..Len(codes) : codes[i] # 0 =>
        /\ i = Len(codes)
        /\ started = SubSeq(ToolList, 1, i)
        /\ children = 0
        /\ pc = "Exited"
        /\ status = Some(codes[i])

\* three commands, the second returned 2, the third never ran
C1_Witness ==
    /\ tools # None
    /\ Len(ToolList) = 3
    /\ codes = <<0, 2>>
    /\ Len(started) = 2
    /\ status = Some(2)

\* C2: when the first profile whose preconditions hold declares no command
\* list for the operation, no later profile is selected, no command is run or
\* printed, and the process does not end with status 0.
C2_NoToolsIsTerminal ==
    (/\ Located
     /\ FirstSatisfied # None
     /\ ToolsFor(config.entries[FirstSatisfied[1]].tools, command) = None)
    => /\ selected = None
       /\ started = <<>>
       /\ printed = <<>>
       /\ pc = "Exited" => status # Some(0)

\* C3: first match.  The profile whose command list is taken is the earliest
\* profile of the list whose preconditions hold.
C3_FirstMatch == selected # None => selected = FirstSatisfied

\* the safety half of C4
C4_DryRunSafe ==
    dry_run =>
        /\ started = <<>>
        /\ children = 0
        /\ codes = <<>>
        /\ pc = "Executing" => printed = SubSeq(ToolList, 1, tool_idx - 1)
        /\ (pc = "Exited" /\ tools # None) => (printed = ToolList /\ status = Some(0))

\* C4: in a dry run no child is ever spawned, the commands printed so far are
\* the commands of the list up to the loop's position in declared order, and
\* once a list is selected the process ends with status 0 having printed the
\* whole list.
C4_DryRun ==
    /\ []C4_DryRunSafe
    /\ (dry_run /\ selected # None) ~> (pc = "Exited" /\ status = Some(0) /\ printed = ToolList)

\* a dry run of a three-command list has ended
C4_Witness ==
    /\ dry_run
    /\ pc = "Exited"
    /\ tools # None
    /\ Len(printed) = 3
    /\ status = Some(0)

\* C9: a command whose program does not resolve, or cannot be spawned, ends
\* the process at once with the fixed non-zero status of an Err: only the
\* commands before it were started.
C9_RunnerFailureStops ==
    err \in {Some("NotFound"), Some("SpawnFailed")} =>
        /\ pc = "Exited"
        /\ status = Some(ErrExit)
        /\ status # Some(0)
        /\ tool_idx <= Len(ToolList)
        /\ started = SubSeq(ToolList, 1, tool_idx - 1)
        /\ children = 0

\* the second command of three does not resolve
C9_Witness ==
    /\ err = Some("NotFound")
    /\ tool_idx = 2
    /\ Len(ToolList) = 3
    /\ Len(started) = 1
    /\ status = Some(ErrExit)

\* the targets of lib.rs whose detect files are all found
LibSatisfied(i) == DetectLoop(config.targets[i].detect, 1, cwd, repo_root) = "true"

\* C10: when no profile satisfies its preconditions the process ends with a
\* non-zero status and no command is run.
C10_NoMatchFails ==
    (/\ pc = "Exited"
     /\ Located
     /\ \A i \in 1..Len(config.targets) : ~LibSatisfied(i))
    => /\ status # Some(0)
       /\ started = <<>>

\* the same statement of main() in main.rs, where it holds
C10_MainNoMatchFails ==
    (/\ pc = "Exited"
     /\ Located
     /\ \A i \in 1..Len(config.entries) : ~Satisfied(i))
    => /\ status = Some(NoToolExit)
       /\ started = <<>>
       /\ printed = <<>>

\* ------------------------------------------------------ matcher properties
Called(fn) == call # None /\ call[1].fn = fn

\* the directories from repo_root down to cwd, both included
OnPath(d) == StartsWith(d, repo_root) /\ StartsWith(cwd, d)

\* C5: Entry::matches returns true exactly when every required binary
\* resolves and, with a file requirement, every named file is found by the
\* search in the declared direction; a profile without requirements always
\* matches, a profile with an unresolvable binary returns false.
C5_MatchesIff ==
    Called("matches") =>
        LET e == call[1].entry
            bins == IF e.bin = None THEN <<>> ELSE to_vec(e.bin[1])
            files == IF e.file = None THEN <<>> ELSE to_vec(e.file[1].name)
            binsOk == \A k \in 1..Len(bins) : bins[k] \in path_bins
            filesOk == \A k \in 1..Len(files) :
                path_search(cwd, repo_root, e.file[1].search_direction, files[k]).result = "true"
        IN /\ (ret[1] = "true") <=> (binsOk /\ filesOk)
           /\ (e.bin = None /\ e.file = None) => ret[1] = "true"
           /\ ~binsOk => ret[1] = "false"

\* an unresolvable binary beside a resolvable one, the required file present
C5_Witness ==
    /\ Called("matches")
    /\ call[1].entry.bin = Some(Multiple(<<"sh", "foo">>))
    /\ "foo" \notin path_bins
    /\ call[1].entry.file = Some([name |-> Single("bar"), search_direction |-> "backwards"])
    /\ back_search(cwd, repo_root, "bar").result = "true"
    /\ ret[1] = "false"

\* C6: backwards search returns a boolean for every (cwd, repo_root), false
\* when the ascent from cwd runs out of parents before it reaches repo_root.
C6_BackSearchTotal == Called("back_search") => ret[1].result \in {"true", "false"}

\* C7 as stated: forward search returns false whenever cwd is not repo_root
\* or below it, wherever the marker file is.
C7_ForwardOutsideFalse ==
    (Called("forward_search") /\ ~StartsWith(cwd, repo_root)) => ret[1].result = "false"

\* C7 amended: when cwd is not repo_root or below it, forward search returns
\* true if the marker is a regular file directly in repo_root and false for
\* every other placement of it.
C7_ForwardOutsideRootOnly ==
    (Called("forward_search") /\ ~StartsWith(cwd, repo_root)) =>
        /\ IsFile(repo_root, call[1].file) => ret[1].result = "true"
        /\ ~IsFile(repo_root, call[1].file) => ret[1].result = "false"

\* cwd is beside repo_root and holds the marker, which is not found
C7_Witness ==
    /\ Called("forward_search")
    /\ ~StartsWith(cwd, repo_root)
    /\ ~StartsWith(repo_root, cwd)
    /\ IsFile(cwd, call[1].file)
    /\ ret[1].result = "false"

\* C8: with cwd at or below repo_root, a regular marker file in any directory
\* from repo_root down to cwd makes either search return true.
C8_MarkerOnPathFound ==
    (/\ call # None
     /\ call[1].fn \in {"back_search", "forward_search"}
     /\ StartsWith(cwd, repo_root)
     /\ \E d \in Dirs : OnPath(d) /\ IsFile(d, call[1].file))
    => ret[1].result = "true"

\* the marker lies strictly between repo_root and cwd
C8_Witness ==
    /\ Called("back_search")
    /\ \E d \in Dirs : OnPath(d) /\ d # cwd /\ d # repo_root /\ IsFile(d, call[1].file)
    /\ ret[1].result = "true"

\* C11: once a profile's command list is taken and the run is not a dry run,
\* a run in which nothing fails (every command gets a child and every child
\* exits with code 0) ends with status 0, every command of the list having
\* been started exactly once, in the declared order, and having exited 0; and
\* status 0 is never reached with a command of the list left out or repeated.
AllZero == \A k \in 1..Len(codes) : codes[k] = 0

RanAll == started = ToolList /\ Len(codes) = Len(ToolList) /\ AllZero /\ children = 0

C11_AllZeroSucceeds ==
    /\ []((pc = "Exited" /\ status = Some(0) /\ tools # None /\ ~dry_run) => RanAll)
    /\ \/ [](selected = None \/ dry_run)
       \/ <>(err # None)
       \/ <>(pc = "Exited" /\ status = Some(0) /\ RanAll)

C11_Witness ==
    /\ pc = "Exited" /\ status = Some(0) /\ ~dry_run /\ tools # None
    /\ Len(started) = 3 /\ RanAll

\* C12: at most one child is outstanding at any time, and only while the
\* dispatch waits in run(); the commands started are the declared list up to
\* the current one, in order; and when command k+1 has been started, the exit
\* codes of commands 1..k have all been observed (and were 0).
C12_Sequential ==
    /\ children \in {0, 1}
    /\ (pc = "Running") => (children = 1 /\ Len(codes) = Len(started) - 1)
    /\ (pc \notin {"Running", "Exited"}) => (children = 0 /\ Len(codes) = Len(started))
    /\ (children = 1) => (pc = "Running" \/ err = Some("StreamError"))
    /\ Len(started) > 0 =>
        /\ tools # None
        /\ Len(started) <= Len(ToolList)
        /\ started = SubSeq(ToolList, 1, Len(started))
        /\ Len(codes) \in {Len(started) - 1, Len(started)}
        /\ \A k \in 1..(Len(started) - 1) : codes[k] = 0

C12_Witness == pc = "Running" /\ Len(started) = 2 /\ codes = <<0>> /\ children = 1

\* C13: when the child that ended last has no exit code, the process has
\* ended with the runner's failure status, which is not 0, under a diagnostic
\* of its own; no exit code was recorded for that child (so none of 0), and
\* the execution loop is still at that child's command.
C13_NoCodeIsFailure ==
    (child_status # None /\ ~child_status[1].exited) =>
        /\ pc = "Exited"
        /\ err = Some("NotExited")
        /\ status = Some(ErrExit)
        /\ status # Some(0)
        /\ Len(codes) = Len(started) - 1
        /\ tool_idx = Len(started)
        /\ children = 0

C13_Witness ==
    /\ child_status # None /\ ~child_status[1].exited
    /\ pc = "Exited" /\ Len(started) = 2 /\ Len(ToolList) = 3

\* C14: merging a repository list with a user list yields a list as long as
\* both together whose first entries are the repository's, position by
\* position, and whose remaining entries are the user's, position by position
\* (so nothing is dropped, duplicated or reordered); with exactly one source
\* the result is that source.
C14_MergeOrder ==
    Called("merge") =>
        LET r == call[1].repo_config
            u == call[1].user_config
            res == ret[1]
        IN /\ (r # None /\ u # None) =>
                /\ res # None
                /\ Len(res[1].entries) = Len(r[1].entries) + Len(u[1].entries)
                /\ \A i \in 1..Len(r[1].entries) : res[1].entries[i] = r[1].entries[i]
                /\ \A j \in 1..Len(u[1].entries) :
                      res[1].entries[Len(r[1].entries) + j] = u[1].entries[j]
           /\ (r # None /\ u = None) => res = r
           /\ (r = None /\ u # None) => res = u

C14_Witness ==
    /\ Called("merge")
    /\ call[1].repo_config = Some([entries |-> <<EntryA, EntryB>>])
    /\ call[1].user_config = Some([entries |-> <<EntryB, EntryC>>])
    /\ ret[1] = Some([entries |-> <<EntryA, EntryB, EntryB, EntryC>>])

\* C15: without a configuration the invocation is either still before the
\* check of the configuration file or has ended with the "no configuration"
\* diagnostic and a non-zero status; the repository root was not resolved, no
\* profile was evaluated, nothing was printed or started; and it does end.
NothingDone ==
    /\ repo_root = Unlocated
    /\ entry_idx = 1 /\ selected = None /\ tools = None
    /\ started = <<>> /\ printed = <<>> /\ codes = <<>> /\ children = 0

C15_NoConfigSafe ==
    ~have_config =>
        /\ NothingDone
        /\ \/ pc = "Loading" /\ status = None
           \/ pc = "Exited" /\ err = Some("NoConfig") /\ status = Some(NoConfigExit)
                            /\ status # Some(0)

C15_NoConfigFails == []C15_NoConfigSafe /\ (~have_config ~> pc = "Exited")

C15_Witness == ~have_config /\ pc = "Exited" /\ err = Some("NoConfig") /\ status = Some(1)

\* the same for run() of lib.rs: canonicalize() of the missing file is an Err
C15_LibNoConfigSafe ==
    ~have_config =>
        /\ NothingDone
        /\ \/ pc = "LibLoading" /\ status = None
           \/ pc = "Exited" /\ err = Some("NoConfig") /\ status = Some(ErrExit)
                            /\ status # Some(0)

\* C16: when repository discovery from cwd finds nothing, the invocation does
\* not fail on that: once the root is resolved it is cwd and the dispatch is
\* matching profiles or further on, never ended by the lookup.
C16_RootFallback ==
    (have_config /\ git_root = None /\ pc \notin {"Loading", "Resolving", "LibLoading",
                                                   "LibResolving"}) =>
        /\ repo_root = cwd
        /\ err # Some("NoRepository")

\* the fallback of main.rs taken: the root is cwd and a profile was evaluated
C16_MainWitness ==
    /\ git_root = None /\ repo_root = cwd /\ pc = "Matching" /\ entry_idx = 2

C19_RootOnly ==
    (cwd = repo_root /\ (Called("back_search") \/ Called("forward_search"))) =>
        /\ Len(ret[1].inspected) = 1
        /\ ret[1].inspected[1] = repo_root
        /\ ret[1].result = (IF IsFile(repo_root, call[1].file) THEN "true" ELSE "false")

C19_Witness ==
    /\ cwd = repo_root /\ Len(cwd) = 1 /\ Called("forward_search")
    /\ ret[1].result = "true" /\ ret[1].inspected = <<repo_root>>

\* C20: when cwd is repo_root or below it, the search applied returns what
\* the search in the other direction returns for the same file, it returns
\* true or false, and every directory it inspected is on the path from
\* repo_root to cwd, both included.
C20_DirectionsAgree ==
    (StartsWith(cwd, repo_root) /\ (Called("back_search") \/ Called("forward_search"))) =>
        /\ ret[1].result \in {"true", "false"}
        /\ Called("back_search") =>
              ret[1].result = forward_search(cwd, repo_root, call[1].file).result
        /\ Called("forward_search") =>
              ret[1].result = back_search(cwd, repo_root, call[1].file).result
        /\ \A k \in 1..Len(ret[1].inspected) : OnPath(ret[1].inspected[k])

\* the marker is between the root and cwd: the walk down finds it second
C20_Witness ==
    /\ Len(cwd) = 2 /\ repo_root = <<>> /\ Called("forward_search")
    /\ IsFile(SubSeq(cwd, 1, 1), call[1].file)
    /\ ret[1].result = "true"
    /\ ret[1].inspected = <<repo_root, SubSeq(cwd, 1, 1)>>

\* C18: at every moment, what the runner has printed on each channel is, in
\* order, the lines the child wrote on the stream of the same name, each once
\* and prefixed with the indent, up to the last one read; and when the runner
\* returns the child's exit code, every line the child wrote has been printed.
IsPrefix(p, q) == Len(p) <= Len(q) /\ SubSeq(q, 1, Len(p)) = p

WrittenOn(t) ==
    LET OnStream(line) == line.stream = t
        lines == SelectSeq(wrote, OnStream)
    IN [k \in 1..Len(lines) |-> lines[k].message]

Indented(indent, lines) == [k \in 1..Len(lines) |-> indent \o lines[k]]

IndentOf(c) == IF c.fn = "run" THEN INDENT ELSE c.indent

C18_LinesReEmitted ==
    call # None =>
        /\ call[1].fn = "run" => call[1].indent = INDENT
        /\ \A t \in Streams :
            /\ IsPrefix(emitted[t], Indented(IndentOf(call[1]), WrittenOn(t)))
            /\ (ret # None /\ ret[1].ok) =>
                  emitted[t] = Indented(IndentOf(call[1]), WrittenOn(t))

\* stderr written before stdout and read after it; the code comes back last
C18_Witness ==
    /\ call # None /\ call[1].fn = "run" /\ ret # None /\ ret[1].ok
    /\ wrote = <<[stream |-> "stderr", message |-> "y"], [stream |-> "stdout", message |-> "x"]>>
    /\ emitted = [stdout |-> <<"   x">>, stderr |-> <<"   y">>]

\* C21: whatever the commands of the taken list are, a real run that has
\* ended has not ended in a panic: it ended with Ok(()), with a command's
\* non-zero code, or with a failure the runner reported.
RunnerFailures == {Some("NotFound"), Some("SpawnFailed"), Some("NotExited"), Some("StreamError")}

C21_TokenizationDefined ==
    (tools # None /\ ~dry_run /\ pc = "Exited") =>
        /\ err \in {None, Some("CommandFailed")} \cup RunnerFailures
        /\ status # Some(PanicExit)
        /\ err \in RunnerFailures => status # Some(0)

\* C22: in the real run that follows a dry run of the same invocation, the
\* profile selected is the one the dry run selected (none when it selected
\* none); the commands started so far are, in order, the first commands the
\* dry run printed; and when the real run has ended with Ok(()), every child
\* having exited 0, the commands started are exactly the commands printed.
C22_DryRunPredicts ==
    (Called("main") /\ ~dry_run) =>
        LET dry == ret[1] IN
        /\ selected # None => selected = dry.selected
        /\ pc \in {"Executing", "Running", "Exited"} => selected = dry.selected
        /\ IsPrefix(started, dry.printed)
        /\ (pc = "Exited" /\ err = None) => (status = Some(0) /\ started = dry.printed)

C22_Witness ==
    /\ Called("main") /\ ~dry_run /\ pc = "Exited" /\ err = None
    /\ selected = Some(2)
    /\ Len(started) = 3 /\ started = ret[1].printed

\* a real run that stops early: the second of three commands exits 2
C22_PrefixWitness ==
    /\ Called("main") /\ ~dry_run /\ pc = "Exited" /\ status = Some(2)
    /\ Len(started) = 2 /\ Len(ret[1].printed) = 3
====
